---- MODULE Spec2Model ----
(***************************************************************************)
(* Model of the file cache of MharoonZ/ATE_CHECK (src/cache_manager.py,    *)
(* class CacheManager).                                                    *)
(*                                                                         *)
(* Spec        one caller at a time: every public operation is one action  *)
(*             (its body runs under self._lock).  os.remove may fail, the  *)
(*             failure the per-file handlers of the code exist for.        *)
(*                                                                         *)
(* SpecEvict   saves only, of payloads up to more than 80% of the maximum, *)
(*             each recording the list its eviction pass worked on.        *)
(*                                                                         *)
(* SpecFault   as Spec, with a failure injected into one file-system call   *)
(*             of the operation and, optionally, into the call its error   *)
(*             handler makes; the directory can be lost and re-created.    *)
(*                                                                         *)
(* SpecThreads several threads of one process, each making one call; a   *)
(*             step is one file-system call or one lock operation.         *)
(*                                                                         *)
(* SpecGuard   as SpecThreads, with one thread in save or load, one in     *)
(*             clear_cache or cleanup_expired, whose steps are the listing *)
(*             and one step per file, and one in get_cache_stats, which    *)
(*             takes no lock.                                              *)
(*                                                                         *)
(* SpecLive    three threads, two in save or load and one in clear_cache   *)
(*             or cleanup_expired, whose calls may also fail (an I/O error *)
(*             in save, os.listdir raising), under weak fairness of every  *)
(*             thread.                                                     *)
(*                                                                         *)
(* SpecProcs   the steps of SpecThreads run by two saving processes and a  *)
(*             loading one on the same directory: each has its own lock,   *)
(*             so none ever waits.                                         *)
(*                                                                         *)
(* SpecKeyErr  as SpecKey, on triples that may also hold a string with a   *)
(*             lone surrogate, which utf-8 cannot encode, or an integer.   *)
(*                                                                         *)
(* SpecKeyPair get_cache_key on two triples whose fields may hold the      *)
(*             delimiter character.                                        *)
(*                                                                         *)
(* SpecKey     get_cache_key applied to one (brand, model, options) triple. *)
(*                                                                         *)
(* Units.  A file's content is a sequence of chunks of ChunkBytes bytes,   *)
(* time is counted in days.                                                *)
(***************************************************************************)
EXTENDS Integers, Sequences, FiniteSets, TLC

\* ------------------------------------------------------------------ bounds
MaxTime == 1
MaxRmFail == 1
ChunkBytes == 131072

\* --------------------------------------------------------------- constants
\* CacheManager(expiry_days=1, max_cache_size_mb=1), test_cache.py:21-25
expiry_days == 1
max_cache_size_mb == 1

Keys == {"k1", "k2", "k3"}
Payloads == {<<"a">>, <<"b", "b", "b">>}
Garbage == {<<"PROTO", "a">>}

None == <<"None">>
UnpicklingError == <<"UnpicklingError">>
NoKey == "-"
NoInput == <<>>
NoDigest == -1

Threads == {"t1", "t2", "t3"}
NoThread == "-"

VARIABLES files, dir_exists, cache_dir, now, last, thr, lock, snaps,
          key_in, key_out

vars == <<files, dir_exists, cache_dir, now, last, thr, lock, snaps,
          key_in, key_out>>
tvars == <<thr, lock, snaps>>
kvars == <<key_in, key_out>>

Range(s) == {s[i] : i \in 1..Len(s)}

\* ------------------------------------------------------------- file system
NoFile == [exists |-> FALSE, content |-> <<>>, mtime |-> 0]

MkFile(c, t) == [exists |-> TRUE, content |-> c, mtime |-> t]

Paths == Keys \X {"pkl", "tmp"}

\* file.endswith(".pkl")
IsPkl(path) == path[2] = "pkl"

\* os.listdir(self.cache_dir) filtered on ".pkl", as a set
PklFiles(fs) == {p \in Paths : IsPkl(p) /\ fs[p].exists}

\* os.path.getsize
getsize(fs, path) == Len(fs[path].content) * ChunkBytes

\* os.path.getmtime
getmtime(fs, path) == fs[path].mtime

\* os.remove of an existing file
Remove(fs, path) == [fs EXCEPT ![path] = NoFile]

\* mutant: the destination takes the content but keeps its own mtime
Replace_KeepMtime(fs, src, dst) ==
    [fs EXCEPT ![dst] = IF fs[dst].exists
                        THEN [fs[src] EXCEPT !.mtime = fs[dst].mtime]
                        ELSE fs[src],
               ![src] = NoFile]

\* os.replace(src, dst): dst takes over the file (content and mtime) of src
Replace(fs, src, dst) == [fs EXCEPT ![dst] = fs[src], ![src] = NoFile]

\* open(path, "wb") followed by the writes and the close
WriteFile(fs, path, bytes, t) == [fs EXCEPT ![path] = MkFile(bytes, t)]

RECURSIVE SumSizes(_, _)
SumSizes(fs, S) ==
    IF S = {} THEN 0
    ELSE LET p == CHOOSE x \in S : TRUE
         IN  getsize(fs, p) + SumSizes(fs, S \ {p})

\* the sets of files on which os.remove fails during one operation
RmFailSets(S) == {F \in SUBSET S : Cardinality(F) <= MaxRmFail}

\* every order os.listdir may return the files of S in
RECURSIVE Listings(_)
Listings(S) ==
    IF S = {} THEN {<<>>}
    ELSE UNION {{<<p>> \o l : l \in Listings(S \ {p})} : p \in S}

\* ------------------------------------------------------------------ pickle
\* mutant: the tail of the stream is not flushed before the file is moved
pickle_dumps_Unflushed(data) == <<"PROTO">> \o data

\* pickle.dump(data, f, protocol=HIGHEST_PROTOCOL): PROTO opcode, the
\* payload, STOP opcode
pickle_dumps(data) == <<"PROTO">> \o data \o <<"STOP">>

\* the chunks a pickled payload is made of, between PROTO and STOP
DataChunks == {"a", "b"}

\* pickle.load: the payload between PROTO and STOP, an error on anything else
pickle_loads(bytes) ==
    IF /\ Len(bytes) >= 2
       /\ bytes[1] = "PROTO"
       /\ bytes[Len(bytes)] = "STOP"
       /\ \A i \in 2..(Len(bytes) - 1) : bytes[i] \in DataChunks
    THEN SubSeq(bytes, 2, Len(bytes) - 1)
    ELSE UnpicklingError

\* mutant: the file name does not depend on the key
get_cache_path_Shared(cache_key) == <<"k1", "pkl">>

\* ----------------------------------------------------------- CacheManager
get_cache_path(cache_key) == <<cache_key, "pkl">>

\* mutant: the payload is written straight to the final location
TempPath_InPlace(cache_path) == cache_path

\* temp_path = cache_path + ".tmp"
TempPath(cache_path) == <<cache_path[1], "tmp">>

is_cache_valid(fs, cache_path, t) ==
    IF ~fs[cache_path].exists THEN FALSE
    ELSE t < getmtime(fs, cache_path) + expiry_days

\* self.max_cache_size_mb * 1024 * 1024
MaxBytes == max_cache_size_mb * 1024 * 1024

\* mutant: the loop stops at the maximum instead of 80% of it
AtTarget_Full(current_size) == current_size <= MaxBytes

\* current_size <= target_size, target_size = MaxBytes * 0.8
AtTarget(current_size) == current_size * 10 <= MaxBytes * 8

get_cache_stats(fs, dir, t) ==
    IF ~dir
    THEN [total_files |-> 0, valid_files |-> 0, expired_files |-> 0,
          total_size |-> 0]
    ELSE LET fl == PklFiles(fs)
         IN  [total_files   |-> Cardinality(fl),
              valid_files   |-> Cardinality({p \in fl : is_cache_valid(fs, p, t)}),
              expired_files |-> Cardinality({p \in fl : ~is_cache_valid(fs, p, t)}),
              total_size    |-> SumSizes(fs, fl)]

\* cache_files.sort(key=lambda x: x[1]): stable insertion by mtime
RECURSIVE InsertByMtime(_, _, _)
InsertByMtime(fs, p, s) ==
    IF s = <<>> THEN <<p>>
    ELSE IF getmtime(fs, s[Len(s)]) <= getmtime(fs, p)
         THEN s \o <<p>>
         ELSE InsertByMtime(fs, p, SubSeq(s, 1, Len(s) - 1)) \o <<s[Len(s)]>>

RECURSIVE SortByMtime(_, _)
SortByMtime(fs, listing) ==
    IF listing = <<>> THEN <<>>
    ELSE InsertByMtime(fs, listing[Len(listing)],
                       SortByMtime(fs, SubSeq(listing, 1, Len(listing) - 1)))

\* the loop of _cleanup_old_files over the sorted cache_files, from index i
RECURSIVE EvictLoop(_, _, _, _, _, _, _)
EvictLoop(fs, cache_files, i, current_size, rmfail, removed, failed) ==
    IF i > Len(cache_files) \/ AtTarget(current_size)
    THEN [fs |-> fs, removed |-> removed, failed |-> failed]
    ELSE LET p == cache_files[i]
         IN  IF p \in rmfail
             THEN EvictLoop(fs, cache_files, i + 1, current_size, rmfail,
                            removed, failed \cup {p})
             ELSE EvictLoop(Remove(fs, p), cache_files, i + 1,
                            current_size - getsize(fs, p), rmfail,
                            removed \o <<p>>, failed)

\* mutant: the files are taken in the order of the listing
_cleanup_old_files_Unsorted(fs, listing, rmfail) ==
    EvictLoop(fs, listing, 1, SumSizes(fs, PklFiles(fs)), rmfail, <<>>, {})

_cleanup_old_files(fs, listing, rmfail) ==
    LET cache_files == SortByMtime(fs, listing)
        current_size == SumSizes(fs, PklFiles(fs))
    IN  EvictLoop(fs, cache_files, 1, current_size, rmfail, <<>>, {})

\* mutant: the pass also runs when the size is exactly the maximum
OverLimit_AtLimit(fs, dir, t) == get_cache_stats(fs, dir, t).total_size >= MaxBytes

\* get_cache_stats()["total_size"] > self.max_cache_size_mb * 1024 * 1024
OverLimit(fs, dir, t) == get_cache_stats(fs, dir, t).total_size > MaxBytes

_cleanup_if_needed(fs, dir, t, listing, rmfail) ==
    IF OverLimit(fs, dir, t)
    THEN _cleanup_old_files(fs, listing, rmfail)
    ELSE [fs |-> fs, removed |-> <<>>, failed |-> {}]

\* ensure_cache_dir: a missing directory is created (mkdir succeeds)
ensure_cache_dir(dir) == TRUE

\* the file-system effect of save_to_cache up to and including os.replace
SaveWrite(fs, cache_key, data, t) ==
    LET cache_path == get_cache_path(cache_key)
        temp_path  == TempPath(cache_path)
    IN  Replace(WriteFile(fs, temp_path, pickle_dumps(data), t),
                temp_path, cache_path)

\* mutant: an entry that fails the validity check is removed by the load
load_from_cache_Purge(fs, cache_key, t, rmfail) ==
    LET cache_path == get_cache_path(cache_key)
    IN  IF ~is_cache_valid(fs, cache_path, t)
        THEN [result |-> None, fs |-> Remove(fs, cache_path), failed |-> {}]
        ELSE IF pickle_loads(fs[cache_path].content) # UnpicklingError
             THEN [result |-> pickle_loads(fs[cache_path].content), fs |-> fs,
                   failed |-> {}]
             ELSE IF cache_path \in rmfail
                  THEN [result |-> None, fs |-> fs, failed |-> {cache_path}]
                  ELSE [result |-> None, fs |-> Remove(fs, cache_path),
                        failed |-> {}]

\* mutant: a corrupted entry is reported as a miss and left in place
load_from_cache_NoHeal(fs, cache_key, t, rmfail) ==
    LET cache_path == get_cache_path(cache_key)
    IN  IF ~is_cache_valid(fs, cache_path, t)
        THEN [result |-> None, fs |-> fs, failed |-> {}]
        ELSE IF pickle_loads(fs[cache_path].content) # UnpicklingError
             THEN [result |-> pickle_loads(fs[cache_path].content), fs |-> fs,
                   failed |-> {}]
             ELSE [result |-> None, fs |-> fs, failed |-> {}]

load_from_cache(fs, cache_key, t, rmfail) ==
    LET cache_path == get_cache_path(cache_key)
    IN  IF ~is_cache_valid(fs, cache_path, t)
        THEN [result |-> None, fs |-> fs, failed |-> {}]
        ELSE IF pickle_loads(fs[cache_path].content) # UnpicklingError
             THEN [result |-> pickle_loads(fs[cache_path].content), fs |-> fs,
                   failed |-> {}]
             ELSE IF cache_path \in rmfail
                  THEN [result |-> None, fs |-> fs, failed |-> {cache_path}]
                  ELSE [result |-> None, fs |-> Remove(fs, cache_path),
                        failed |-> {}]

\* mutant: the pass filters on the wrong suffix and removes the temporary
\* files instead of the entries
clear_cache_WrongSuffix(fs, dir, rmfail) ==
    IF ~dir THEN [result |-> TRUE, fs |-> fs, failed |-> {}]
    ELSE [result |-> TRUE, failed |-> {},
          fs |-> [p \in Paths |-> IF ~IsPkl(p) THEN NoFile ELSE fs[p]]]

clear_cache(fs, dir, rmfail) ==
    IF ~dir THEN [result |-> TRUE, fs |-> fs, failed |-> {}]
    ELSE [result |-> TRUE, failed |-> PklFiles(fs) \cap rmfail,
          fs |-> [p \in Paths |-> IF IsPkl(p) /\ p \notin rmfail
                                  THEN NoFile ELSE fs[p]]]

\* mutant: the counter is incremented before the removal is attempted
cleanup_expired_CountsFailed(fs, dir, t, rmfail) ==
    IF ~dir THEN [result |-> 0, fs |-> fs, failed |-> {}]
    ELSE LET bad  == {p \in PklFiles(fs) : ~is_cache_valid(fs, p, t)}
             gone == bad \ rmfail
         IN  [result |-> Cardinality(bad), failed |-> bad \cap rmfail,
              fs |-> [p \in Paths |-> IF p \in gone THEN NoFile ELSE fs[p]]]

cleanup_expired(fs, dir, t, rmfail) ==
    IF ~dir THEN [result |-> 0, fs |-> fs, failed |-> {}]
    ELSE LET bad  == {p \in PklFiles(fs) : ~is_cache_valid(fs, p, t)}
             gone == bad \ rmfail
         IN  [result |-> Cardinality(gone), failed |-> bad \cap rmfail,
              fs |-> [p \in Paths |-> IF p \in gone THEN NoFile ELSE fs[p]]]

\* ------------------------------------------------------------- operations
NoStats == [total_files |-> 0, valid_files |-> 0, expired_files |-> 0,
            total_size |-> 0]

\* no failure injected
NoPath == <<"-", "-">>
NoFault == [site |-> "none", path |-> NoPath, handler |-> FALSE]

Blank == [op |-> "init", prior |-> "-", key |-> NoKey, data |-> None,
          ok |-> FALSE, loaded |-> None, count |-> 0, removed |-> <<>>,
          failed |-> {}, stats |-> NoStats, raised |-> FALSE,
          fault |-> NoFault, pass |-> "none", scanned |-> <<>>]

\* a thread that makes no call
Idle == [op |-> "none", key |-> NoKey, data |-> None, pc |-> "done",
         fd |-> <<"-", "-">>, pos |-> 0, ok |-> FALSE, loaded |-> None,
         torn |-> FALSE, removed |-> <<>>, listing |-> <<>>,
         res |-> NoStats, count |-> 0]

Init ==
    /\ files = [p \in Paths |-> NoFile]
    /\ dir_exists = TRUE
    /\ now = 0
    /\ last = Blank
    /\ thr = [t \in Threads |-> Idle]
    /\ lock = NoThread
    /\ snaps = [t \in Threads |-> {}]
    /\ cache_dir = 0
    /\ key_in = NoInput
    /\ key_out = NoDigest

\* what a save of data under k finds at the final location
Replaced(fs, k, data, t) ==
    LET old == fs[get_cache_path(k)]
    IN  IF ~old.exists THEN "-"
        ELSE IF old.content = pickle_dumps(data) THEN "same"
        ELSE IF t < old.mtime + expiry_days THEN "replace_valid"
        ELSE "replace_expired"

Save(k, data) ==
    LET written == SaveWrite(files, k, data, now)
    IN  \E rmfail \in RmFailSets(PklFiles(written)) :
        \E listing \in IF OverLimit(written, TRUE, now)
                        THEN Listings(PklFiles(written)) ELSE {<<>>} :
            LET swept == _cleanup_if_needed(written, TRUE, now, listing, rmfail)
            IN  /\ files' = swept.fs
                /\ dir_exists' = ensure_cache_dir(dir_exists)
                /\ last' = [Blank EXCEPT !.op = "save", !.key = k,
                                         !.data = data, !.ok = TRUE,
                                         !.removed = swept.removed,
                                         !.failed = swept.failed,
                                         !.prior = Replaced(files, k, data, now)]
                /\ UNCHANGED <<now, tvars, kvars, cache_dir>>

Load(k) ==
    \E rmfail \in RmFailSets({get_cache_path(k)}) :
        LET r == load_from_cache(files, k, now, rmfail)
        IN  /\ files' = r.fs
            /\ last' = [Blank EXCEPT
                            !.op = "load", !.key = k, !.loaded = r.result,
                            !.failed = r.failed,
                            !.prior = IF /\ last.op \in {"save", "corrupt"}
                                         /\ last.key = k
                                      THEN last.op ELSE "-"]
            /\ UNCHANGED <<dir_exists, now, tvars, kvars, cache_dir>>

Clear ==
    \E rmfail \in RmFailSets(PklFiles(files)) :
        LET r == clear_cache(files, dir_exists, rmfail)
        IN  /\ files' = r.fs
            /\ last' = [Blank EXCEPT
                            !.op = "clear", !.ok = r.result,
                            !.failed = r.failed,
                            !.count = Cardinality(PklFiles(files) \ PklFiles(r.fs))]
            /\ UNCHANGED <<dir_exists, now, tvars, kvars, cache_dir>>

Stats ==
    /\ last' = [Blank EXCEPT
                    !.op = "stats",
                    !.stats = get_cache_stats(files, dir_exists, now),
                    !.prior = IF last.op = "clear" THEN "clear" ELSE "-",
                    !.count = IF last.op = "clear" THEN last.count ELSE 0]
    /\ UNCHANGED <<files, dir_exists, now, tvars, kvars, cache_dir>>

CleanupExpired ==
    \E rmfail \in RmFailSets(PklFiles(files)) :
        LET r == cleanup_expired(files, dir_exists, now, rmfail)
        IN  /\ files' = r.fs
            /\ last' = [Blank EXCEPT !.op = "cleanup", !.count = r.result,
                                     !.failed = r.failed]
            /\ UNCHANGED <<dir_exists, now, tvars, kvars, cache_dir>>

\* the clock advances by a day
Tick ==
    /\ now < MaxTime
    /\ now' = now + 1
    /\ last' = [Blank EXCEPT !.op = "tick"]
    /\ UNCHANGED <<files, dir_exists, tvars, kvars, cache_dir>>

\* an entry file is overwritten with garbage bytes from outside the cache
Corrupt(k) ==
    \E g \in Garbage :
        /\ files[get_cache_path(k)].exists
        /\ files' = WriteFile(files, get_cache_path(k), g, now)
        /\ last' = [Blank EXCEPT !.op = "corrupt", !.key = k]
        /\ UNCHANGED <<dir_exists, now, tvars, kvars, cache_dir>>

\* the directory is removed from outside the cache (shutil.rmtree)
RmTree ==
    /\ dir_exists
    /\ files' = [p \in Paths |-> NoFile]
    /\ dir_exists' = FALSE
    /\ last' = [Blank EXCEPT !.op = "rmtree"]
    /\ UNCHANGED <<now, tvars, kvars, cache_dir>>

Next ==
    \/ \E k \in Keys, data \in Payloads : Save(k, data)
    \/ \E k \in Keys : Load(k)
    \/ Clear
    \/ Stats
    \/ CleanupExpired
    \/ Tick
    \/ \E k \in Keys : Corrupt(k)
    \/ RmTree

Spec == Init /\ [][Next]_vars

\* --------------------------------------------------------------- eviction
\* payloads of 3, 5 and 7 chunks: the last one alone is above 80% of the
\* maximum
EPayloads == {<<"a">>, <<"b", "b", "b">>, <<"a", "b", "a", "b", "a">>}

\* cache_files after the sort of line 175: (file_path, mtime, size)
Scanned(fs, dir, t, listing) ==
    IF ~OverLimit(fs, dir, t) THEN <<>>
    ELSE LET cache_files == SortByMtime(fs, listing)
         IN  [i \in 1..Len(cache_files) |->
                 [path  |-> cache_files[i],
                  mtime |-> getmtime(fs, cache_files[i]),
                  size  |-> getsize(fs, cache_files[i])]]

\* save_to_cache, every call before the eviction pass succeeding
ESave(k, data) ==
    LET written == SaveWrite(files, k, data, now)
    IN  \E rmfail \in RmFailSets(IF OverLimit(written, TRUE, now)
                                  THEN PklFiles(written) ELSE {}) :
        \E listing \in IF OverLimit(written, TRUE, now)
                        THEN Listings(PklFiles(written)) ELSE {<<>>} :
            LET swept == _cleanup_if_needed(written, TRUE, now, listing, rmfail)
            IN  /\ files' = swept.fs
                /\ dir_exists' = ensure_cache_dir(dir_exists)
                /\ last' = [Blank EXCEPT
                                !.op = "save", !.key = k, !.data = data,
                                !.ok = TRUE, !.removed = swept.removed,
                                !.failed = swept.failed,
                                !.pass = IF OverLimit(written, TRUE, now)
                                         THEN "done" ELSE "none",
                                !.scanned = Scanned(written, TRUE, now, listing)]
                /\ UNCHANGED <<now, tvars, kvars, cache_dir>>

NextE ==
    \/ \E k \in Keys, data \in EPayloads : ESave(k, data)
    \/ Tick

SpecEvict == Init /\ [][NextE]_vars

\* ----------------------------------------------------------------- faults
\* A fault f makes one file-system call of the operation fail: f.site names
\* the call, f.path the file it is applied to; f.handler makes the call
\* inside the error handler (os.remove of the temporary or corrupted file,
\* tempfile.mkdtemp) fail as well.
MaxDirs == 2
FKeys == {"k1", "k2"}
FPayloads == {<<"b", "b", "b">>}

Fault(site, path, handler) == [site |-> site, path |-> path, handler |-> handler]

Fails(f, site, path) == f.site = site /\ f.path = path

RmSet(f) == IF f.site = "rm" THEN {f.path} ELSE {}

EmptyDir == [p \in Paths |-> NoFile]

\* mutant: an unreadable modification time counts as valid
is_cache_valid_f_FailOpen(fs, cache_path, t, f) ==
    IF ~fs[cache_path].exists THEN FALSE
    ELSE IF Fails(f, "mtime", cache_path) THEN TRUE
    ELSE is_cache_valid(fs, cache_path, t)

\* is_cache_valid with os.path.getmtime raising (lines 93-95)
is_cache_valid_f(fs, cache_path, t, f) ==
    IF ~fs[cache_path].exists THEN FALSE
    ELSE IF Fails(f, "mtime", cache_path) THEN FALSE
    ELSE is_cache_valid(fs, cache_path, t)

\* ensure_cache_dir with mkdir raising PermissionError ("mkdir_perm") or
\* another error ("mkdir_other"), and mkdtemp raising in the handler
ensure_cache_dir_f(dir, cd, f) ==
    IF dir \/ f.site \notin {"mkdir_perm", "mkdir_other"}
    THEN [raised |-> FALSE, dir |-> TRUE, cd |-> cd, moved |-> FALSE]
    ELSE IF f.handler
         THEN [raised |-> TRUE, dir |-> FALSE, cd |-> cd, moved |-> FALSE]
         ELSE [raised |-> FALSE, dir |-> TRUE, cd |-> cd + 1, moved |-> TRUE]

\* get_cache_stats with os.listdir raising (lines 255-262) and
\* os.path.getsize raising on a file (lines 242-243)
get_cache_stats_f(fs, dir, t, f) ==
    IF ~dir \/ f.site = "listdir" THEN NoStats
    ELSE LET fl   == PklFiles(fs)
             seen == {p \in fl : ~Fails(f, "size", p)}
         IN  [total_files   |-> Cardinality(fl),
              valid_files   |-> Cardinality({p \in seen : is_cache_valid_f(fs, p, t, f)}),
              expired_files |-> Cardinality({p \in seen : ~is_cache_valid_f(fs, p, t, f)}),
              total_size    |-> SumSizes(fs, seen)]

\* _cleanup_old_files with os.listdir, os.path.getmtime or os.path.getsize
\* raising while cache_files is collected (handler of lines 190-191)
_cleanup_old_files_f(fs, listing, f) ==
    IF \/ f.site = "scan_listdir"
       \/ \E p \in Range(listing) : Fails(f, "scan", p)
    THEN [fs |-> fs, removed |-> <<>>, failed |-> {}, pass |-> "aborted"]
    ELSE LET r == _cleanup_old_files(fs, listing, RmSet(f))
         IN  [fs |-> r.fs, removed |-> r.removed, failed |-> r.failed,
              pass |-> "done"]

OverLimit_f(fs, dir, t, f) ==
    get_cache_stats_f(fs, dir, t, f).total_size > MaxBytes

_cleanup_if_needed_f(fs, dir, t, listing, f) ==
    IF OverLimit_f(fs, dir, t, f)
    THEN _cleanup_old_files_f(fs, listing, f)
    ELSE [fs |-> fs, removed |-> <<>>, failed |-> {}, pass |-> "none"]

\* mutant: the handler removes the temporary file outside a try block
SaveHandler_Unguarded(fs, temp_bound, temp_path, f) ==
    IF ~temp_bound THEN [fs |-> fs, raised |-> TRUE]
    ELSE IF ~fs[temp_path].exists THEN [fs |-> fs, raised |-> FALSE]
    ELSE IF f.handler THEN [fs |-> fs, raised |-> TRUE]
    ELSE [fs |-> Remove(fs, temp_path), raised |-> FALSE]

\* the handler of save_to_cache (lines 143-151); temp_path is unbound when
\* ensure_cache_dir raised, and the bare except swallows that too
SaveHandler(fs, temp_bound, temp_path, f) ==
    IF ~temp_bound THEN [fs |-> fs, raised |-> FALSE]
    ELSE IF ~fs[temp_path].exists THEN [fs |-> fs, raised |-> FALSE]
    ELSE IF f.handler THEN [fs |-> fs, raised |-> FALSE]
    ELSE [fs |-> Remove(fs, temp_path), raised |-> FALSE]

\* what pickle.dump leaves in the file when a write fails
Partial(bytes) == SubSeq(bytes, 1, 1)

save_to_cache_f(fs, dir, cd, cache_key, data, t, listing, f) ==
    LET e          == ensure_cache_dir_f(dir, cd, f)
        fs0        == IF e.moved THEN EmptyDir ELSE fs
        cache_path == get_cache_path(cache_key)
        temp_path  == TempPath(cache_path)
        bytes      == pickle_dumps(data)
        failed(fs1, bound) ==
            LET h == SaveHandler(fs1, bound, temp_path, f)
            IN  [ok |-> FALSE, raised |-> h.raised, fs |-> h.fs,
                 dir |-> e.dir, cd |-> e.cd, removed |-> <<>>,
                 failed |-> {}, pass |-> "none"]
    IN  IF e.raised THEN failed(fs0, FALSE)
        ELSE IF f.site = "open" THEN failed(fs0, TRUE)
        ELSE IF f.site = "write"
             THEN failed(WriteFile(fs0, temp_path, Partial(bytes), t), TRUE)
        ELSE IF f.site = "replace"
             THEN failed(WriteFile(fs0, temp_path, bytes, t), TRUE)
        ELSE LET written == Replace(WriteFile(fs0, temp_path, bytes, t),
                                    temp_path, cache_path)
                 swept   == _cleanup_if_needed_f(written, TRUE, t, listing, f)
             IN  [ok |-> TRUE, raised |-> FALSE, fs |-> swept.fs,
                  dir |-> e.dir, cd |-> e.cd, removed |-> swept.removed,
                  failed |-> swept.failed, pass |-> swept.pass]

\* load_from_cache with open raising (handler of lines 113-122)
load_from_cache_f(fs, cache_key, t, f) ==
    LET cache_path == get_cache_path(cache_key)
        rmfails    == f.handler \/ Fails(f, "rm", cache_path)
    IN  IF ~is_cache_valid_f(fs, cache_path, t, f)
        THEN [result |-> None, fs |-> fs, failed |-> {}]
        ELSE IF /\ f.site # "open"
                /\ pickle_loads(fs[cache_path].content) # UnpicklingError
             THEN [result |-> pickle_loads(fs[cache_path].content), fs |-> fs,
                   failed |-> {}]
             ELSE IF rmfails
                  THEN [result |-> None, fs |-> fs, failed |-> {cache_path}]
                  ELSE [result |-> None, fs |-> Remove(fs, cache_path),
                        failed |-> {}]

\* mutant: the first removal that fails ends the pass with False
clear_cache_f_Abort(fs, dir, f) ==
    IF ~dir THEN [result |-> TRUE, fs |-> fs, failed |-> {}]
    ELSE IF f.site = "listdir" THEN [result |-> FALSE, fs |-> fs, failed |-> {}]
    ELSE IF PklFiles(fs) \cap RmSet(f) # {}
         THEN [result |-> FALSE, fs |-> fs, failed |-> PklFiles(fs) \cap RmSet(f)]
         ELSE clear_cache(fs, dir, RmSet(f))

\* clear_cache with os.listdir raising (handler of lines 211-213)
clear_cache_f(fs, dir, f) ==
    IF ~dir THEN [result |-> TRUE, fs |-> fs, failed |-> {}]
    ELSE IF f.site = "listdir" THEN [result |-> FALSE, fs |-> fs, failed |-> {}]
    ELSE clear_cache(fs, dir, RmSet(f))

\* cleanup_expired with os.listdir raising (handler of lines 286-288) and
\* the validity check failing closed
cleanup_expired_f(fs, dir, t, f) ==
    IF ~dir \/ f.site = "listdir" THEN [result |-> 0, fs |-> fs, failed |-> {}]
    ELSE LET bad  == {p \in PklFiles(fs) : ~is_cache_valid_f(fs, p, t, f)}
             gone == bad \ RmSet(f)
         IN  [result |-> Cardinality(gone), failed |-> bad \cap RmSet(f),
              fs |-> [p \in Paths |-> IF p \in gone THEN NoFile ELSE fs[p]]]

\* the faults that reach a call of each operation
\* (a call on a file is only made for the files the directory holds)
PathFaults(fs, sites) == {Fault(s, p, FALSE) : s \in sites, p \in PklFiles(fs)}

DirFaults(dir) ==
    IF dir THEN {NoFault, Fault("listdir", NoPath, FALSE)} ELSE {NoFault}

SaveFaults(fs, dir, k) ==
    {NoFault, Fault("open", NoPath, FALSE), Fault("replace", NoPath, FALSE),
     Fault("write", NoPath, FALSE), Fault("write", NoPath, TRUE)}
        \cup {Fault(s, NoPath, h) : s \in IF dir THEN {}
                                          ELSE {"mkdir_perm", "mkdir_other"},
                                   h \in BOOLEAN}
        \cup IF dir /\ SumSizes(fs, PklFiles(fs) \cup {get_cache_path(k)}) > 0
             THEN {Fault("listdir", NoPath, FALSE),
                   Fault("scan_listdir", NoPath, FALSE)}
                      \cup PathFaults(fs, {"rm", "size", "scan"})
             ELSE {}

LoadFaults(fs, k) ==
    IF fs[get_cache_path(k)].exists
    THEN {NoFault, Fault("open", NoPath, FALSE), Fault("open", NoPath, TRUE),
          Fault("mtime", get_cache_path(k), FALSE)}
    ELSE {NoFault}

ClearFaults(fs, dir) == DirFaults(dir) \cup PathFaults(fs, {"rm"})

StatsFaults(fs, dir) == DirFaults(dir) \cup PathFaults(fs, {"size", "mtime"})

CleanupFaults(fs, dir) == DirFaults(dir) \cup PathFaults(fs, {"rm", "mtime"})

ValidFaults(fs, k) ==
    IF fs[get_cache_path(k)].exists
    THEN {NoFault, Fault("mtime", get_cache_path(k), FALSE)}
    ELSE {NoFault}

InitF ==
    /\ files = EmptyDir
    /\ dir_exists = TRUE
    /\ cache_dir = 0
    /\ now = 0
    /\ last = Blank
    /\ thr = [t \in Threads |-> Idle]
    /\ lock = NoThread
    /\ snaps = [t \in Threads |-> {}]
    /\ key_in = NoInput
    /\ key_out = NoDigest

FSave(k, data) ==
    \E f \in SaveFaults(files, dir_exists, k) :
        /\ f.site \in {"mkdir_perm", "mkdir_other"} => cache_dir < MaxDirs
        /\ LET e       == ensure_cache_dir_f(dir_exists, cache_dir, f)
               fs0     == IF e.moved THEN EmptyDir ELSE files
               written == SaveWrite(fs0, k, data, now)
           IN  \E listing \in IF /\ ~e.raised
                                   /\ f.site \notin {"open", "write", "replace"}
                                   /\ OverLimit_f(written, TRUE, now, f)
                                THEN Listings(PklFiles(written)) ELSE {<<>>} :
                 LET r == save_to_cache_f(files, dir_exists, cache_dir, k, data,
                                          now, listing, f)
                 IN  /\ files' = r.fs
                     /\ dir_exists' = r.dir
                     /\ cache_dir' = r.cd
                     /\ last' = [Blank EXCEPT
                                     !.op = "save", !.key = k, !.data = data,
                                     !.ok = r.ok, !.raised = r.raised,
                                     !.removed = r.removed, !.failed = r.failed,
                                     !.pass = r.pass, !.fault = f]
        /\ UNCHANGED <<now, tvars, kvars>>

FLoad(k) ==
    \E f \in LoadFaults(files, k) :
        LET r == load_from_cache_f(files, k, now, f)
        IN  /\ files' = r.fs
            /\ last' = [Blank EXCEPT !.op = "load", !.key = k,
                                     !.loaded = r.result, !.failed = r.failed,
                                     !.fault = f]
            /\ UNCHANGED <<dir_exists, cache_dir, now, tvars, kvars>>

FClear ==
    \E f \in ClearFaults(files, dir_exists) :
        LET r == clear_cache_f(files, dir_exists, f)
        IN  /\ files' = r.fs
            /\ last' = [Blank EXCEPT
                            !.op = "clear", !.ok = r.result, !.fault = f,
                            !.failed = r.failed,
                            !.count = Cardinality(PklFiles(files) \ PklFiles(r.fs))]
            /\ UNCHANGED <<dir_exists, cache_dir, now, tvars, kvars>>

FStats ==
    \E f \in StatsFaults(files, dir_exists) :
        /\ last' = [Blank EXCEPT
                        !.op = "stats", !.fault = f,
                        !.stats = get_cache_stats_f(files, dir_exists, now, f)]
        /\ UNCHANGED <<files, dir_exists, cache_dir, now, tvars, kvars>>

FCleanupExpired ==
    \E f \in CleanupFaults(files, dir_exists) :
        LET r == cleanup_expired_f(files, dir_exists, now, f)
        IN  /\ files' = r.fs
            /\ last' = [Blank EXCEPT !.op = "cleanup", !.count = r.result,
                                     !.failed = r.failed, !.fault = f]
            /\ UNCHANGED <<dir_exists, cache_dir, now, tvars, kvars>>

\* is_cache_valid called on the entry of k
FValid(k) ==
    \E f \in ValidFaults(files, k) :
        /\ last' = [Blank EXCEPT
                        !.op = "valid", !.key = k, !.fault = f,
                        !.ok = is_cache_valid_f(files, get_cache_path(k), now, f)]
        /\ UNCHANGED <<files, dir_exists, cache_dir, now, tvars, kvars>>

NextF ==
    \/ \E k \in FKeys, data \in FPayloads : FSave(k, data)
    \/ \E k \in FKeys : FLoad(k)
    \/ FClear
    \/ FStats
    \/ FCleanupExpired
    \/ \E k \in FKeys : FValid(k)
    \/ Tick
    \/ RmTree

SpecFault == InitF /\ [][NextF]_vars

\* ---------------------------------------------------------------- threads
TKeys == {"k1", "k2"}

\* the payload of the entries that exist before the threads start
OldPayload == <<"b">>

\* the payload each thread passes to save_to_cache
ThreadData(t) ==
    CASE t = "t1" -> <<"a">>
      [] t = "t2" -> <<"b", "b", "b">>
      [] OTHER    -> <<"a", "a">>

\* an open file whose directory entry is gone, or no open file
Detached == <<"-", "-">>

\* open(path, "wb"): the file is created or truncated
OpenTrunc(fs, path, t) == [fs EXCEPT ![path] = MkFile(<<>>, t)]

\* f.write of one chunk at offset i of the file behind path; a write past
\* the end fills the gap with zero chunks
WriteAt(fs, path, i, chunk, t) ==
    LET c == fs[path].content
        n == IF Len(c) >= i THEN Len(c) ELSE i
    IN  [fs EXCEPT ![path] =
            MkFile([j \in 1..n |-> IF j = i THEN chunk
                                   ELSE IF j <= Len(c) THEN c[j]
                                   ELSE "zero"], t)]

\* the open files after os.replace(src, dst): a file open at src is now the
\* file at dst, the file that was at dst has no directory entry any more
AfterReplace(th, src, dst) ==
    [u \in Threads |->
        IF th[u].fd = src THEN [th[u] EXCEPT !.fd = dst]
        ELSE IF th[u].fd = dst THEN [th[u] EXCEPT !.fd = Detached]
        ELSE th[u]]

\* the open files after os.remove of the files of gone
AfterRemove(th, gone) ==
    [u \in Threads |->
        IF th[u].fd \in gone THEN [th[u] EXCEPT !.fd = Detached] ELSE th[u]]

\* mutant: the body is entered without waiting for the lock
LockFree_NoWait(l) == TRUE

\* with self._lock: the RLock is free for a thread that does not hold it
LockFree(l) == l = NoThread

\* mutant: the lock is kept when the body is left
Release_Leak(l, t) == l

\* leaving the with block
Release(l, t) == IF l = t THEN NoThread ELSE l

Start(t, op, k) ==
    [Idle EXCEPT !.op = op, !.key = k, !.pc = "start",
                 !.data = IF op = "save" THEN ThreadData(t) ELSE None]

InitT ==
    /\ files \in {f \in [Paths -> {NoFile, MkFile(pickle_dumps(OldPayload), 0)}] :
                     \A p \in Paths : f[p].exists => IsPkl(p) /\ p[1] \in TKeys}
    /\ dir_exists = TRUE
    /\ now \in 0..MaxTime
    /\ last = Blank
    /\ \E asg \in [Threads -> {"save", "load"} \X TKeys] :
           thr = [t \in Threads |-> Start(t, asg[t][1], asg[t][2])]
    /\ lock = NoThread
    /\ snaps = [t \in Threads |-> {}]
    /\ cache_dir = 0
    /\ key_in = NoInput
    /\ key_out = NoDigest

\* the statistics of every state of the directory that a get_cache_stats
\* call in progress has lived through
Observe(sn, th, fs, dir, t) ==
    [u \in Threads |->
        IF th[u].op = "stats" /\ th[u].pc \in {"s_list", "s_scan"}
        THEN sn[u] \cup {get_cache_stats(fs, dir, t)}
        ELSE sn[u]]

\* with self._lock (lines 99, 126)
TAcquire(t) ==
    /\ thr[t].pc = "start"
    /\ LockFree(lock)
    /\ lock' = t
    /\ thr' = [thr EXCEPT ![t].pc = IF thr[t].op = "save" THEN "open" ELSE "check"]
    /\ UNCHANGED <<kvars, cache_dir, files, dir_exists, now, last>>
    /\ snaps' = Observe(snaps, thr', files', dir_exists', now')

\* save_to_cache: ensure_cache_dir and open(temp_path, "wb")
TOpen(t) ==
    LET temp_path == TempPath(get_cache_path(thr[t].key))
    IN  /\ thr[t].pc = "open"
        /\ files' = OpenTrunc(files, temp_path, now)
        /\ dir_exists' = ensure_cache_dir(dir_exists)
        /\ thr' = [thr EXCEPT ![t].pc = "write", ![t].fd = temp_path, ![t].pos = 0]
        /\ UNCHANGED <<kvars, cache_dir, now, last, lock>>
        /\ snaps' = Observe(snaps, thr', files', dir_exists', now')

\* save_to_cache: pickle.dump writes the next chunk; the file is closed
\* after the last one
TWrite(t) ==
    LET bytes == pickle_dumps(thr[t].data)
        i     == thr[t].pos + 1
    IN  /\ thr[t].pc = "write"
        /\ files' = IF thr[t].fd = Detached THEN files
                     ELSE WriteAt(files, thr[t].fd, i, bytes[i], now)
        /\ thr' = IF i = Len(bytes)
                   THEN [thr EXCEPT ![t].pc = "replace", ![t].pos = i,
                                    ![t].fd = Detached]
                   ELSE [thr EXCEPT ![t].pos = i]
        /\ UNCHANGED <<kvars, cache_dir, dir_exists, now, last, lock>>
        /\ snaps' = Observe(snaps, thr', files', dir_exists', now')

\* save_to_cache: os.replace(temp_path, cache_path); when temp_path is
\* missing the handler of line 143 returns False
TReplace(t) ==
    LET cache_path == get_cache_path(thr[t].key)
        temp_path  == TempPath(cache_path)
    IN  /\ thr[t].pc = "replace"
        /\ IF files[temp_path].exists
           THEN /\ files' = Replace(files, temp_path, cache_path)
                /\ thr' = [AfterReplace(thr, temp_path, cache_path)
                               EXCEPT ![t].pc = "cleanup"]
                /\ UNCHANGED lock
           ELSE /\ thr' = [thr EXCEPT ![t].pc = "done", ![t].ok = FALSE]
                /\ lock' = Release(lock, t)
                /\ UNCHANGED files
        /\ UNCHANGED <<kvars, cache_dir, dir_exists, now, last>>
        /\ snaps' = Observe(snaps, thr', files', dir_exists', now')

\* save_to_cache: _cleanup_if_needed, return True
TCleanup(t) ==
    /\ thr[t].pc = "cleanup"
    /\ \E listing \in IF OverLimit(files, dir_exists, now)
                       THEN Listings(PklFiles(files)) ELSE {<<>>} :
          LET swept == _cleanup_if_needed(files, dir_exists, now, listing, {})
          IN  /\ files' = swept.fs
              /\ thr' = [AfterRemove(thr, Range(swept.removed))
                             EXCEPT ![t].pc = "done", ![t].ok = TRUE,
                                    ![t].removed = swept.removed]
    /\ lock' = Release(lock, t)
    /\ UNCHANGED <<kvars, cache_dir, dir_exists, now, last>>
    /\ snaps' = Observe(snaps, thr', files', dir_exists', now')

\* load_from_cache: the validity check (lines 101-104)
TLoadCheck(t) ==
    /\ thr[t].pc = "check"
    /\ IF is_cache_valid(files, get_cache_path(thr[t].key), now)
       THEN /\ thr' = [thr EXCEPT ![t].pc = "read"]
            /\ UNCHANGED lock
       ELSE /\ thr' = [thr EXCEPT ![t].pc = "done", ![t].loaded = None]
            /\ lock' = Release(lock, t)
    /\ UNCHANGED <<kvars, cache_dir, files, dir_exists, now, last>>
    /\ snaps' = Observe(snaps, thr', files', dir_exists', now')

\* load_from_cache: open and pickle.load, with the handlers of lines 110-122
TLoadRead(t) ==
    LET cache_path == get_cache_path(thr[t].key)
        cached     == pickle_loads(files[cache_path].content)
    IN  /\ thr[t].pc = "read"
        /\ IF ~files[cache_path].exists
           THEN /\ thr' = [thr EXCEPT ![t].pc = "done", ![t].loaded = None]
                /\ UNCHANGED files
           ELSE IF cached # UnpicklingError
           THEN /\ thr' = [thr EXCEPT ![t].pc = "done", ![t].loaded = cached]
                /\ UNCHANGED files
           ELSE /\ files' = Remove(files, cache_path)
                /\ thr' = [AfterRemove(thr, {cache_path})
                               EXCEPT ![t].pc = "done", ![t].loaded = None,
                                      ![t].torn = TRUE]
        /\ lock' = Release(lock, t)
        /\ UNCHANGED <<kvars, cache_dir, dir_exists, now, last>>
        /\ snaps' = Observe(snaps, thr', files', dir_exists', now')

NextT ==
    \/ \E t \in Threads : TAcquire(t)
    \/ \E t \in Threads : TOpen(t)
    \/ \E t \in Threads : TWrite(t)
    \/ \E t \in Threads : TReplace(t)
    \/ \E t \in Threads : TCleanup(t)
    \/ \E t \in Threads : TLoadCheck(t)
    \/ \E t \in Threads : TLoadRead(t)

SpecThreads == InitT /\ [][NextT]_vars

\* ------------------------------------------------- clear, cleanup, stats
\* a thread about to call clear_cache, cleanup_expired or get_cache_stats
StartG(op) ==
    [Idle EXCEPT !.op = op, !.pc = IF op = "stats" THEN "s_list" ELSE "enter"]

InitG ==
    /\ files \in {f \in [Paths -> {NoFile, MkFile(pickle_dumps(OldPayload), 0)}] :
                     \A p \in Paths : f[p].exists => IsPkl(p) /\ p[1] \in TKeys}
    /\ dir_exists = TRUE
    /\ now \in 0..MaxTime
    /\ last = Blank
    /\ \E op1 \in {"save", "load"}, k \in TKeys, op2 \in {"clear", "cleanup"} :
           thr = [t \in Threads |->
                     CASE t = "t1" -> Start(t, op1, k)
                       [] t = "t2" -> StartG(op2)
                       [] OTHER    -> StartG("stats")]
    /\ lock = NoThread
    /\ snaps = Observe([t \in Threads |-> {}], thr, files, dir_exists, now)
    /\ cache_dir = 0
    /\ key_in = NoInput
    /\ key_out = NoDigest

\* with self._lock (lines 195, 266)
GAcquire(t) ==
    /\ thr[t].pc = "enter"
    /\ LockFree(lock)
    /\ lock' = t
    /\ thr' = [thr EXCEPT ![t].pc = "list"]
    /\ UNCHANGED <<kvars, cache_dir, files, dir_exists, now, last>>
    /\ snaps' = Observe(snaps, thr', files', dir_exists', now')

\* clear_cache, cleanup_expired: os.path.exists and os.listdir
GList(t) ==
    /\ thr[t].pc = "list"
    /\ IF dir_exists /\ PklFiles(files) # {}
       THEN /\ \E listing \in Listings(PklFiles(files)) :
                  thr' = [thr EXCEPT ![t].pc = "rm", ![t].listing = listing,
                                     ![t].pos = 0]
            /\ UNCHANGED lock
       ELSE /\ thr' = [thr EXCEPT ![t].pc = "done", ![t].ok = TRUE]
            /\ lock' = Release(lock, t)
    /\ UNCHANGED <<kvars, cache_dir, files, dir_exists, now, last>>
    /\ snaps' = Observe(snaps, thr', files', dir_exists', now')

\* clear_cache, cleanup_expired: the loop body for the next listed file
GRemove(t) ==
    LET i    == thr[t].pos + 1
        p    == thr[t].listing[i]
        hit  == /\ files[p].exists
                /\ thr[t].op = "cleanup" => ~is_cache_valid(files, p, now)
        more == i < Len(thr[t].listing)
    IN  /\ thr[t].pc = "rm"
        /\ files' = IF hit THEN Remove(files, p) ELSE files
        /\ thr' = [(IF hit THEN AfterRemove(thr, {p}) ELSE thr)
                       EXCEPT ![t].pos = i,
                              ![t].count = IF hit THEN @ + 1 ELSE @,
                              ![t].pc = IF more THEN "rm" ELSE "done",
                              ![t].ok = ~more]
        /\ lock' = IF more THEN lock ELSE Release(lock, t)
        /\ UNCHANGED <<kvars, cache_dir, dir_exists, now, last>>
        /\ snaps' = Observe(snaps, thr', files', dir_exists', now')

\* get_cache_stats: os.path.exists and os.listdir (lines 218-232); no lock
\* is taken
SList(t) ==
    /\ thr[t].pc = "s_list"
    /\ IF dir_exists /\ PklFiles(files) # {}
       THEN \E listing \in Listings(PklFiles(files)) :
               thr' = [thr EXCEPT ![t].pc = "s_scan", ![t].listing = listing,
                                  ![t].pos = 0,
                                  ![t].res.total_files = Len(listing)]
       ELSE thr' = [thr EXCEPT ![t].pc = "done"]
    /\ UNCHANGED <<kvars, cache_dir, files, dir_exists, now, last, lock>>
    /\ snaps' = Observe(snaps, thr', files', dir_exists', now')

\* get_cache_stats: the loop body for the next listed file (lines 237-243);
\* getsize raises when the file is gone and the file is skipped
SScan(t) ==
    LET i  == thr[t].pos + 1
        p  == thr[t].listing[i]
        r  == thr[t].res
        r2 == IF ~files[p].exists THEN r
              ELSE IF is_cache_valid(files, p, now)
                   THEN [r EXCEPT !.total_size = @ + getsize(files, p),
                                  !.valid_files = @ + 1]
                   ELSE [r EXCEPT !.total_size = @ + getsize(files, p),
                                  !.expired_files = @ + 1]
    IN  /\ thr[t].pc = "s_scan"
        /\ thr' = [thr EXCEPT ![t].pos = i, ![t].res = r2,
                              ![t].pc = IF i < Len(thr[t].listing)
                                        THEN "s_scan" ELSE "done"]
        /\ UNCHANGED <<kvars, cache_dir, files, dir_exists, now, last, lock>>
        /\ snaps' = Observe(snaps, thr', files', dir_exists', now')

NextG ==
    \/ \E t \in Threads : TAcquire(t)
    \/ \E t \in Threads : TOpen(t)
    \/ \E t \in Threads : TWrite(t)
    \/ \E t \in Threads : TReplace(t)
    \/ \E t \in Threads : TCleanup(t)
    \/ \E t \in Threads : TLoadCheck(t)
    \/ \E t \in Threads : TLoadRead(t)
    \/ \E t \in Threads : GAcquire(t)
    \/ \E t \in Threads : GList(t)
    \/ \E t \in Threads : GRemove(t)
    \/ \E t \in Threads : SList(t)
    \/ \E t \in Threads : SScan(t)

SpecGuard == InitG /\ [][NextG]_vars

\* -------------------------------------------------------------- liveness
InitL ==
    /\ files \in {f \in [Paths -> {NoFile, MkFile(pickle_dumps(OldPayload), 0)}] :
                     \A p \in Paths : f[p].exists => IsPkl(p) /\ p[1] \in TKeys}
    /\ dir_exists = TRUE
    /\ now \in 0..MaxTime
    /\ last = Blank
    /\ \E op1 \in {"save", "load"}, k \in TKeys, op2 \in {"clear", "cleanup"},
          op3 \in {"save", "load"} :
           thr = [t \in Threads |->
                     CASE t = "t1" -> Start(t, op1, k)
                       [] t = "t2" -> StartG(op2)
                       [] OTHER    -> Start(t, op3, "k1")]
    /\ lock = NoThread
    /\ snaps = [t \in Threads |-> {}]
    /\ cache_dir = 0
    /\ key_in = NoInput
    /\ key_out = NoDigest

\* save_to_cache: open, pickle.dump or os.replace raises; the handler of
\* lines 143-151 removes the temporary file and returns False
TFail(t) ==
    LET temp_path == TempPath(get_cache_path(thr[t].key))
    IN  /\ thr[t].pc \in {"open", "write", "replace"}
        /\ files' = IF files[temp_path].exists THEN Remove(files, temp_path)
                     ELSE files
        /\ thr' = [AfterRemove(thr, {temp_path})
                       EXCEPT ![t].pc = "done", ![t].ok = FALSE,
                              ![t].fd = Detached]
        /\ lock' = Release(lock, t)
        /\ UNCHANGED <<kvars, cache_dir, dir_exists, now, last>>
        /\ snaps' = Observe(snaps, thr', files', dir_exists', now')

\* clear_cache, cleanup_expired: os.listdir raises; the handlers of lines
\* 211-213 and 286-288 return False and 0
GFail(t) ==
    /\ thr[t].pc = "list"
    /\ thr' = [thr EXCEPT ![t].pc = "done", ![t].ok = FALSE]
    /\ lock' = Release(lock, t)
    /\ UNCHANGED <<kvars, cache_dir, files, dir_exists, now, last>>
    /\ snaps' = Observe(snaps, thr', files', dir_exists', now')

\* the steps of thread t
Step(t) ==
    \/ TAcquire(t) \/ TOpen(t) \/ TWrite(t) \/ TReplace(t) \/ TCleanup(t)
    \/ TLoadCheck(t) \/ TLoadRead(t) \/ TFail(t)
    \/ GAcquire(t) \/ GList(t) \/ GRemove(t) \/ GFail(t)

NextL ==
    \/ \E t \in Threads : TAcquire(t)
    \/ \E t \in Threads : TOpen(t)
    \/ \E t \in Threads : TWrite(t)
    \/ \E t \in Threads : TReplace(t)
    \/ \E t \in Threads : TCleanup(t)
    \/ \E t \in Threads : TLoadCheck(t)
    \/ \E t \in Threads : TLoadRead(t)
    \/ \E t \in Threads : TFail(t)
    \/ \E t \in Threads : GAcquire(t)
    \/ \E t \in Threads : GList(t)
    \/ \E t \in Threads : GRemove(t)
    \/ \E t \in Threads : GFail(t)

\* every thread that can take a step eventually takes one
Fair == \A t \in Threads : WF_vars(Step(t))

SpecLive == InitL /\ [][NextL]_vars /\ Fair

\* ------------------------------------------------------------- processes
InitP ==
    /\ files \in {f \in [Paths -> {NoFile, MkFile(pickle_dumps(OldPayload), 0)}] :
                     \A p \in Paths : f[p].exists => IsPkl(p) /\ p[1] \in TKeys}
    /\ dir_exists = TRUE
    /\ now \in 0..MaxTime
    /\ last = Blank
    /\ \E k1 \in TKeys, k2 \in TKeys, k3 \in TKeys :
           thr = [t \in Threads |->
                     CASE t = "t1" -> Start(t, "save", k1)
                       [] t = "t2" -> Start(t, "save", k2)
                       [] OTHER    -> Start(t, "load", k3)]
    /\ lock = NoThread
    /\ snaps = [t \in Threads |-> {}]
    /\ cache_dir = 0
    /\ key_in = NoInput
    /\ key_out = NoDigest

\* with self._lock in a process of its own: the lock of this process is
\* held by nobody else
PEnter(t) ==
    /\ thr[t].pc = "start"
    /\ thr' = [thr EXCEPT ![t].pc = IF thr[t].op = "save" THEN "open" ELSE "check"]
    /\ UNCHANGED <<kvars, cache_dir, files, dir_exists, now, last, lock>>
    /\ snaps' = Observe(snaps, thr', files', dir_exists', now')

NextP ==
    \/ \E t \in Threads : PEnter(t)
    \/ \E t \in Threads : TOpen(t)
    \/ \E t \in Threads : TWrite(t)
    \/ \E t \in Threads : TReplace(t)
    \/ \E t \in Threads : TCleanup(t)
    \/ \E t \in Threads : TLoadCheck(t)
    \/ \E t \in Threads : TLoadRead(t)

SpecProcs == InitP /\ [][NextP]_vars


\* ---------------------------------------------------------- key derivation
\* Strings are sequences of characters.
MaxStrLen == 2
Chars == {" ", "a", "A"}
NoneStr == <<"None">>

RECURSIVE Strings(_)
Strings(n) ==
    IF n = 0 THEN {<<>>}
    ELSE Strings(n - 1) \cup {s \o <<c>> : s \in {x \in Strings(n - 1) : Len(x) = n - 1},
                                          c \in Chars}

\* the values a field of the triple may take: a string or None
Fields == Strings(MaxStrLen) \cup {NoneStr}

\* the truth value of a field: None and "" are false
Truthy(x) == x # NoneStr /\ x # <<>>

RECURSIVE lstrip(_)
lstrip(x) ==
    IF x # <<>> /\ x[1] = " " THEN lstrip(Tail(x)) ELSE x

RECURSIVE rstrip(_)
rstrip(x) ==
    IF x # <<>> /\ x[Len(x)] = " " THEN rstrip(SubSeq(x, 1, Len(x) - 1)) ELSE x

\* mutant: only the leading whitespace is removed
strip_LeftOnly(x) == lstrip(x)

\* str.strip
strip(x) == rstrip(lstrip(x))

\* str.lower
lower(x) == [i \in 1..Len(x) |-> IF x[i] = "A" THEN "a" ELSE x[i]]

\* str.encode('utf-8')
encode(x) ==
    [i \in 1..Len(x) |-> CASE x[i] = " " -> 32
                            [] x[i] = "A" -> 65
                            [] x[i] = "a" -> 97
                            [] x[i] = "7" -> 55
                            [] OTHER      -> 124]

DigestModulus == 65521

\* hashlib.md5(bytes).hexdigest(): a digest that is a function of the bytes,
\* here a polynomial hash
RECURSIVE md5(_)
md5(bytes) ==
    IF bytes = <<>> THEN 7
    ELSE (md5(SubSeq(bytes, 1, Len(bytes) - 1)) * 31 + bytes[Len(bytes)])
            % DigestModulus

get_cache_key(brand, model, options) ==
    LET brand_norm   == IF Truthy(brand) THEN lower(strip(brand)) ELSE <<>>
        model_norm   == IF Truthy(model) THEN lower(strip(model)) ELSE <<>>
        options_norm == IF Truthy(options) THEN lower(strip(options)) ELSE <<>>
        cache_string == brand_norm \o <<"|">> \o model_norm \o <<"|">>
                            \o options_norm
    IN  md5(encode(cache_string))

InitK ==
    /\ files = [p \in Paths |-> NoFile]
    /\ dir_exists = TRUE
    /\ now = 0
    /\ last = Blank
    /\ thr = [t \in Threads |-> Idle]
    /\ lock = NoThread
    /\ snaps = [t \in Threads |-> {}]
    /\ cache_dir = 0
    /\ key_in \in Fields \X Fields \X Fields
    /\ key_out = NoDigest

DeriveKey ==
    /\ key_out = NoDigest
    /\ key_out' = get_cache_key(key_in[1], key_in[2], key_in[3])
    /\ UNCHANGED <<key_in, files, dir_exists, cache_dir, now, last, tvars>>

NextK == DeriveKey

SpecKey == InitK /\ [][NextK]_vars

\* ------------------------------------------- key derivation, error paths
\* a lone surrogate code point: str.encode('utf-8') raises UnicodeEncodeError
Surrogate == "S"

\* the integer 7 passed where a string is expected
Int7 == <<"Int7">>

\* get_cache_key raised instead of returning
Raised == -2

RECURSIVE StringsE(_)
StringsE(n) ==
    IF n = 0 THEN {<<>>}
    ELSE StringsE(n - 1)
            \cup {s \o <<c>> : s \in {x \in StringsE(n - 1) : Len(x) = n - 1},
                               c \in Chars \cup {Surrogate}}

FieldsE == StringsE(MaxStrLen) \cup {NoneStr, Int7}

IsStr(x) == x \notin {NoneStr, Int7}

\* x.encode('utf-8') returns
CanEncode(x) == \A i \in 1..Len(x) : x[i] # Surrogate

\* f"{x or ''}"
Raw(x) == IF ~Truthy(x) THEN <<>> ELSE IF x = Int7 THEN <<"7">> ELSE x

\* the try block of get_cache_key raises: .strip() on a value that is not
\* a string, or .encode on a string utf-8 cannot encode
TryRaises(brand, model, options) ==
    \/ \E x \in {brand, model, options} : Truthy(x) /\ ~IsStr(x)
    \/ \E x \in {brand, model, options} : Truthy(x) /\ ~CanEncode(x)

\* get_cache_key with its handler (lines 69-73)
get_cache_key_f(brand, model, options) ==
    LET fallback_string == Raw(brand) \o Raw(model) \o Raw(options)
    IN  IF ~TryRaises(brand, model, options)
        THEN get_cache_key(brand, model, options)
        ELSE IF CanEncode(fallback_string) THEN md5(encode(fallback_string))
             ELSE Raised

InitKE ==
    /\ files = [p \in Paths |-> NoFile]
    /\ dir_exists = TRUE
    /\ now = 0
    /\ last = Blank
    /\ thr = [t \in Threads |-> Idle]
    /\ lock = NoThread
    /\ snaps = [t \in Threads |-> {}]
    /\ cache_dir = 0
    /\ key_in \in FieldsE \X FieldsE \X FieldsE
    /\ key_out = NoDigest

DeriveKeyE ==
    /\ key_out = NoDigest
    /\ key_out' = get_cache_key_f(key_in[1], key_in[2], key_in[3])
    /\ UNCHANGED <<key_in, files, dir_exists, cache_dir, now, last, tvars>>

NextKE == DeriveKeyE

SpecKeyErr == InitKE /\ [][NextKE]_vars

\* ------------------------------------------------ key derivation, pairs
MaxPairLen == 1
PChars == {"a", "|"}

RECURSIVE PStrings(_)
PStrings(n) ==
    IF n = 0 THEN {<<>>}
    ELSE PStrings(n - 1)
            \cup {s \o <<c>> : s \in {x \in PStrings(n - 1) : Len(x) = n - 1},
                               c \in PChars}

PFields == PStrings(MaxPairLen) \cup {NoneStr}

\* cache_string of lines 63-67: the string get_cache_key digests
CacheString(brand, model, options) ==
    LET brand_norm   == IF Truthy(brand) THEN lower(strip(brand)) ELSE <<>>
        model_norm   == IF Truthy(model) THEN lower(strip(model)) ELSE <<>>
        options_norm == IF Truthy(options) THEN lower(strip(options)) ELSE <<>>
    IN  brand_norm \o <<"|">> \o model_norm \o <<"|">> \o options_norm

InitKP ==
    /\ files = [p \in Paths |-> NoFile]
    /\ dir_exists = TRUE
    /\ now = 0
    /\ last = Blank
    /\ thr = [t \in Threads |-> Idle]
    /\ lock = NoThread
    /\ snaps = [t \in Threads |-> {}]
    /\ cache_dir = 0
    /\ key_in \in (PFields \X PFields \X PFields) \X (PFields \X PFields \X PFields)
    /\ key_out = NoDigest

\* get_cache_key called on each of the two triples
DerivePair ==
    /\ last.op = "init"
    /\ key_out' = <<get_cache_key(key_in[1][1], key_in[1][2], key_in[1][3]),
                    get_cache_key(key_in[2][1], key_in[2][2], key_in[2][3])>>
    /\ last' = [Blank EXCEPT !.op = "key"]
    /\ UNCHANGED <<key_in, files, dir_exists, cache_dir, now, tvars>>

NextKP == DerivePair

SpecKeyPair == InitKP /\ [][NextKP]_vars

\* ------------------------------------------------------------------ claims
\* the entry of the operation recorded in x
KeyPath(x) == <<x.key, "pkl">>

Fresh(fs, path, t) == fs[path].exists /\ t < fs[path].mtime + expiry_days

\* C1: a load issued directly after a successful save of p under k, whose
\* eviction pass kept the entry of k and which has not expired, returns p.
C1_RoundTrip ==
    [][(/\ last.op = "save" /\ last.ok
        /\ files[KeyPath(last)].exists
        /\ last'.op = "load" /\ last'.key = last.key
        /\ Fresh(files, KeyPath(last), now))
       => last'.loaded = last.data]_vars

C1_Witness ==
    /\ last.op = "load" /\ last.prior = "save"
    /\ last.loaded \in Payloads

\* C2: a save that leaves the aggregate size above the maximum deletes entries
\* oldest first, and when no deletion fails the aggregate size it returns
\* with is at most 80% of the maximum.
C2_SizeBoundEviction ==
    [][(/\ last'.op = "save" /\ last'.ok
        /\ SumSizes(files, PklFiles(files) \ {KeyPath(last')})
             + Len(<<"PROTO">> \o last'.data \o <<"STOP">>) * ChunkBytes
             > max_cache_size_mb * 1024 * 1024)
       => LET rem == last'.removed
              mt(p) == IF p = KeyPath(last') THEN now ELSE files[p].mtime
          IN  /\ \A i, j \in 1..Len(rem) : i < j => mt(rem[i]) <= mt(rem[j])
              /\ \A p \in Range(rem) : \A q \in PklFiles(files') :
                     q \notin last'.failed => mt(p) <= mt(q)
              /\ \A p \in Range(rem) : ~files'[p].exists
              /\ last'.failed = {}
                   => 5 * SumSizes(files', PklFiles(files'))
                        <= 4 * max_cache_size_mb * 1024 * 1024]_vars

C2_Witness ==
    /\ last.op = "save" /\ last.ok
    /\ Len(last.removed) >= 2
    /\ last.failed = {}
    /\ PklFiles(files) # {}

\* C3: a load of a key whose entry is expired, or missing, returns Miss and
\* leaves every file as it was.
C3_ExpiredIsMissUntouched ==
    [][(/\ last'.op = "load"
        /\ ~Fresh(files, KeyPath(last'), now))
       => /\ last'.loaded = None
          /\ files' = files]_vars

C3_Witness ==
    /\ last.op = "load" /\ last.loaded = None
    /\ files[KeyPath(last)].exists
    /\ ~(now < files[KeyPath(last)].mtime + expiry_days)

\* the content of path does not deserialize
Undecodable(fs, path) ==
    LET c == fs[path].content
    IN  ~(/\ Len(c) >= 2 /\ c[1] = "PROTO" /\ c[Len(c)] = "STOP"
          /\ \A i \in 2..(Len(c) - 1) : c[i] \in {"a", "b"})

\* C4 as stated: a load of an unexpired entry whose content fails to
\* deserialize returns Miss and the entry file no longer exists afterwards.
C4_Original ==
    [][(/\ last'.op = "load"
        /\ Fresh(files, KeyPath(last'), now)
        /\ Undecodable(files, KeyPath(last')))
       => /\ last'.loaded = None
          /\ ~files'[KeyPath(last')].exists]_vars

\* C4 amended: such a load returns Miss; the entry file is gone afterwards
\* when its removal succeeds, and is left as it was when the removal fails;
\* no other file changes.
C4_SelfHealing ==
    [][(/\ last'.op = "load"
        /\ Fresh(files, KeyPath(last'), now)
        /\ Undecodable(files, KeyPath(last')))
       => /\ last'.loaded = None
          /\ last'.failed = {} => ~files'[KeyPath(last')].exists
          /\ last'.failed # {} => files' = files
          /\ \A p \in Paths \ {KeyPath(last')} : files'[p] = files[p]]_vars

C4_Witness ==
    /\ last.op = "load" /\ last.prior = "corrupt"
    /\ last.loaded = None /\ last.failed = {}
    /\ ~files[KeyPath(last)].exists

\* C8: a clear in which no removal fails leaves no entry, and statistics
\* taken directly after it report 0 files and 0 bytes.
C8_ClearThenStats ==
    [][/\ (last'.op = "clear" /\ last'.failed = {})
            => /\ last'.ok
               /\ \A p \in Paths : p[2] = "pkl" => ~files'[p].exists
       /\ (last.op = "clear" /\ last.failed = {} /\ last'.op = "stats")
            => /\ last'.stats.total_files = 0
               /\ last'.stats.total_size = 0]_vars

C8_Witness ==
    /\ last.op = "stats" /\ last.prior = "clear"
    /\ last.count >= 2
    /\ last.stats.total_files = 0

\* C9: cleanup_expired leaves every valid entry as it was, removes every
\* invalid entry whose deletion succeeds, leaves those whose deletion fails,
\* and returns the number of entries it deleted.
C9_CleanupExpired ==
    [][(last'.op = "cleanup")
       => /\ \A p \in Paths :
               (\/ p[2] # "pkl"
                \/ ~files[p].exists
                \/ Fresh(files, p, now)
                \/ p \in last'.failed)
               => files'[p] = files[p]
          /\ \A p \in Paths :
               (/\ p[2] = "pkl" /\ files[p].exists
                /\ ~Fresh(files, p, now) /\ p \notin last'.failed)
               => ~files'[p].exists
          /\ last'.count =
               Cardinality({p \in Paths : files[p].exists /\ ~files'[p].exists})
       ]_vars

C9_Witness ==
    /\ last.op = "cleanup" /\ last.count >= 1
    /\ \E p \in Paths : p[2] = "pkl" /\ Fresh(files, p, now)

\* C10: a successful save over an existing entry, kept by its eviction pass,
\* leaves one file for the key holding the new payload alone, stamped with
\* the time of this save, valid again, and a load returns the new payload.
C10_LastWriteWins ==
    [][(/\ last'.op = "save" /\ last'.ok
        /\ files[KeyPath(last')].exists
        /\ KeyPath(last') \notin Range(last'.removed))
       => /\ files'[KeyPath(last')].exists
          /\ files'[KeyPath(last')].content
               = <<"PROTO">> \o last'.data \o <<"STOP">>
          /\ files'[KeyPath(last')].mtime = now
          /\ Fresh(files', KeyPath(last'), now)
          /\ ~files'[<<last'.key, "tmp">>].exists
          /\ load_from_cache(files', last'.key, now, {}).result = last'.data
       ]_vars

C10_Witness ==
    /\ last.op = "save" /\ last.ok
    /\ last.prior = "replace_expired"
    /\ files[KeyPath(last)].exists

Savers == {t \in Threads : thr[t].op = "save"}

Loaders == {t \in Threads : thr[t].op = "load"}

AllDone == \A t \in Threads : thr[t].pc = "done"

\* C5: when the threads that save use pairwise distinct keys and no eviction
\* pass removes anything, every save returns True, and once all threads have
\* returned a load of each saved key returns the payload saved under it.
C5_NoLostWrites ==
    (/\ \A t, u \in Savers : t # u => thr[t].key # thr[u].key
     /\ \A t \in Savers : thr[t].removed = <<>>)
    => /\ \A t \in Savers : thr[t].pc = "done" => thr[t].ok
       /\ AllDone =>
            \A t \in Savers :
                load_from_cache(files, thr[t].key, now, {}).result = thr[t].data

C5_Witness ==
    /\ AllDone
    /\ Cardinality(Savers) = 2
    /\ \A t, u \in Savers : t # u => thr[t].key # thr[u].key
    /\ \A t \in Savers : thr[t].ok /\ thr[t].removed = <<>>
    /\ \A t \in Savers : files[<<thr[t].key, "pkl">>].exists

\* the complete entries the final location of k may hold: the one from
\* before the threads started, or the one of a save to k
Complete(k) ==
    {<<"PROTO">> \o OldPayload \o <<"STOP">>}
        \cup {<<"PROTO">> \o thr[u].data \o <<"STOP">> :
                 u \in {v \in Savers : thr[v].key = k}}

\* C6: a load that runs among saves to its key returns Miss, the payload
\* stored before, or the payload of one of the saves, and never deserializes
\* a partial entry; the final location never holds partial content.
C6_NoTornRead ==
    /\ \A t \in Loaders :
          /\ ~thr[t].torn
          /\ thr[t].pc = "done" =>
                \/ thr[t].loaded = None
                \/ thr[t].loaded = OldPayload
                \/ \E u \in Savers : /\ thr[u].key = thr[t].key
                                       /\ thr[t].loaded = thr[u].data
    /\ \A k \in TKeys :
          files[<<k, "pkl">>].exists => files[<<k, "pkl">>].content \in Complete(k)

C6_Witness ==
    /\ AllDone
    /\ \E t \in Loaders : \E u, v \in Savers :
          /\ u # v
          /\ thr[u].key = thr[t].key /\ thr[v].key = thr[t].key
          /\ thr[t].loaded = thr[u].data
          /\ files[<<thr[t].key, "pkl">>].content
               = <<"PROTO">> \o thr[v].data \o <<"STOP">>

\* a field after trimming the surrounding whitespace and lowercasing, None
\* and the empty string counting as empty
Normal(x) ==
    LET idx == {i \in 1..Len(x) : x[i] # " "}
        lo  == CHOOSE i \in idx : \A j \in idx : i <= j
        hi  == CHOOSE i \in idx : \A j \in idx : i >= j
    IN  IF x = <<"None">> \/ idx = {} THEN <<>>
        ELSE [i \in 1..(hi - lo + 1) |->
                 IF x[lo + i - 1] = "A" THEN "a" ELSE x[lo + i - 1]]

\* C7: the key of a triple is the key of its normalized triple, so two
\* triples with the same normalized fields have the same key, whatever the
\* time and the content of the cache.
C7_KeyNormalization ==
    key_out # NoDigest =>
        /\ key_out = get_cache_key(Normal(key_in[1]), Normal(key_in[2]),
                                   Normal(key_in[3]))
        /\ \A i \in 1..3 : Normal(key_in[i]) \in Fields

C7_Witness ==
    /\ key_out # NoDigest
    /\ key_in[1] = <<" ", "A">>
    /\ key_in[2] = <<"a", " ">>
    /\ key_in[3] = <<"None">>
    /\ key_out = get_cache_key(<<"a">>, <<"a">>, <<>>)


\* ------------------------------------------------------------ SpecFault

\* C11: is_cache_valid answers True exactly when the file exists, its
\* modification time can be read and now < last_modified + expiry window (an
\* entry aged exactly the window is invalid); a missing file or an error
\* during the check gives False, and loading a key with no entry file is a
\* miss.
C11_ValidityFailsClosed ==
    [][/\ last'.op = "valid" =>
              LET p == KeyPath(last')
              IN  last'.ok <=> (/\ files[p].exists
                                /\ ~Fails(last'.fault, "mtime", p)
                                /\ now < files[p].mtime + expiry_days)
       /\ (last'.op = "load" /\ ~files[KeyPath(last')].exists)
              => (last'.loaded = None /\ files' = files)]_vars

\* the check ran, without any failure, on an entry aged exactly the window
C11_Witness ==
    /\ last.op = "valid"
    /\ last.fault = NoFault
    /\ files[KeyPath(last)].exists
    /\ now = files[KeyPath(last)].mtime + expiry_days
    /\ ~last.ok

\* C12: whatever file-system call fails, every public operation returns a
\* value of its result type and raises nothing: load a payload or None, save
\* and clear a boolean, cleanup_expired an integer, get_cache_stats a
\* dictionary of counts.
C12_ErrorBoundary ==
    /\ ~last.raised
    /\ last.op = "load" => last.loaded \in FPayloads \cup {None}
    /\ last.op \in {"save", "clear"} => last.ok \in BOOLEAN
    /\ last.op = "cleanup" => last.count \in Nat
    /\ last.op = "stats" =>
           /\ DOMAIN last.stats =
                  {"total_files", "valid_files", "expired_files", "total_size"}
           /\ \A n \in DOMAIN last.stats : last.stats[n] \in Nat

\* a save whose directory bootstrap raised (mkdir and mkdtemp both failed),
\* so that the handler runs before temp_path is bound
C12_Witness ==
    /\ last.op = "save"
    /\ last.fault.site \in {"mkdir_perm", "mkdir_other"}
    /\ last.fault.handler
    /\ ~last.ok
    /\ ~dir_exists


\* C20: when the removal of an entry fails during clear_cache, every other
\* entry is still removed and the call returns True; it returns False only
\* when the directory cannot be listed, and returns True without touching
\* anything when the directory does not exist.
C20_ClearTolerant ==
    [][last'.op = "clear" =>
          IF ~dir_exists THEN last'.ok /\ files' = files
          ELSE IF last'.fault.site = "listdir"
               THEN ~last'.ok /\ files' = files
               ELSE /\ last'.ok
                    /\ \A p \in Paths :
                           files'[p] = IF /\ IsPkl(p)
                                          /\ ~Fails(last'.fault, "rm", p)
                                       THEN NoFile ELSE files[p]]_vars

\* a clear during which one removal failed and another entry was removed
C20_Witness ==
    /\ last.op = "clear"
    /\ last.ok
    /\ last.failed # {}
    /\ last.count >= 1
    /\ \E p \in last.failed : files[p].exists


\* C18: in every result of get_cache_stats on an existing directory, a file
\* whose inspection raised contributes to none of total_files, valid_files,
\* expired_files and total_size, so total_files = valid_files +
\* expired_files, and all remaining files are counted.
C18_Original ==
    (last.op = "stats" /\ dir_exists /\ last.fault.site # "listdir") =>
        LET seen == {p \in PklFiles(files) : ~Fails(last.fault, "size", p)}
        IN  /\ last.stats.total_files = Cardinality(seen)
            /\ last.stats.total_files =
                   last.stats.valid_files + last.stats.expired_files
            /\ last.stats.total_size = SumSizes(files, seen)

\* C19: in a size-eviction pass, an entry whose handling fails is skipped
\* and stays counted in the tracked size, and the pass goes on with the next
\* entries until the tracked size is at or below 80% of the maximum or every
\* entry left has failed; one failure never aborts the pass.
C19_Original ==
    [][(/\ last'.op = "save"
        /\ last'.pass # "none"
        /\ last'.fault.site # "scan_listdir") =>
          \/ AtTarget(SumSizes(files', PklFiles(files')))
          \/ \A p \in PklFiles(files') :
                 Fails(last'.fault, "rm", p) \/ Fails(last'.fault, "scan", p)]_vars

\* C16: the cache root is reassigned to a temporary location at most once,
\* only in response to a permission error while creating the directory, and
\* never changes after that.
C16_Original ==
    [][cache_dir' # cache_dir =>
          cache_dir = 0 /\ last'.fault.site = "mkdir_perm"]_vars


\* ------------------------------------------------------------ SpecGuard

\* a thread inside the body of load_from_cache, save_to_cache (eviction
\* pass included), clear_cache or cleanup_expired
InBody(t) ==
    /\ thr[t].op \in {"save", "load", "clear", "cleanup"}
    /\ thr[t].pc \notin {"start", "enter", "done"}

\* C13: at any moment at most one thread is inside the body of
\* load_from_cache, save_to_cache, clear_cache or cleanup_expired: it is the
\* thread that holds the lock, and nobody holds the lock otherwise.
C13_MutualExclusion ==
    /\ Cardinality({t \in Threads : InBody(t)}) <= 1
    /\ \A t \in Threads : InBody(t) <=> lock = t

\* clear_cache or cleanup_expired is between two of its removals while the
\* save or load of another thread waits for the lock
C13_Witness ==
    \E t, u \in Threads :
        /\ thr[t].pc = "rm" /\ thr[t].pos >= 1
        /\ thr[u].pc = "start"
        /\ lock = t

\* C14: whatever save, clear_cache or cleanup_expired calls of other threads
\* run meanwhile, the total_files, valid_files, expired_files and total_size
\* returned by get_cache_stats describe the directory as it was at one
\* instant of the call.
C14_Original ==
    \A t \in Threads :
        (thr[t].op = "stats" /\ thr[t].pc = "done") => thr[t].res \in snaps[t]

\* ------------------------------------------------------------ SpecProcs

\* every load has returned Miss or a complete payload and, once all calls
\* have returned, every entry file holds a complete payload
NoTornEntry ==
    /\ \A t \in Loaders : ~thr[t].torn
    /\ \A t \in Loaders :
           thr[t].pc = "done" =>
               thr[t].loaded \in {None} \cup
                   {pickle_loads(c) : c \in Complete(thr[t].key)}
    /\ AllDone =>
           \A k \in TKeys :
               files[<<k, "pkl">>].exists =>
                   files[<<k, "pkl">>].content \in Complete(k)

C15_Original ==
    key_out # NoDigest =>
        /\ key_out # Raised
        /\ TryRaises(key_in[1], key_in[2], key_in[3]) =>
               key_out = md5(encode(Raw(key_in[1]) \o Raw(key_in[2])
                                       \o Raw(key_in[3])))


\* ------------------------------------------------------------ SpecEvict

\* the size of the entry a save writes
NewSize(x) == Len(<<"PROTO">> \o x.data \o <<"STOP">>) * ChunkBytes

\* size is at most 80% of the maximum
Fits(size) == 5 * size <= 4 * max_cache_size_mb * 1024 * 1024

\* C21 as stated: when save returns True for an entry that is strictly the
\* most recently modified one and at most 80% of the maximum, its eviction
\* pass has kept the entry and the key loads; the pass deletes the entry of
\* its own save only when that entry alone is above 80% of the maximum.
C21_Original ==
    [][(last'.op = "save" /\ last'.ok) =>
          LET new    == KeyPath(last')
              strict == \A q \in PklFiles(files) \ {new} : files[q].mtime < now
          IN  /\ (strict /\ Fits(NewSize(last'))) =>
                     /\ files'[new].exists
                     /\ load_from_cache(files', last'.key, now, {}).result
                            = last'.data
              /\ ~files'[new].exists => ~Fits(NewSize(last'))]_vars

\* C21, amended: the entry is kept when, in addition, no removal of the
\* pass fails; the pass deletes the entry of its own save only when the
\* entry alone is above 80% of the maximum, when another entry is as recent
\* as it, or when a removal failed.
C21_KeepsOwnEntry ==
    [][(last'.op = "save" /\ last'.ok) =>
          LET new    == KeyPath(last')
              strict == \A q \in PklFiles(files) \ {new} : files[q].mtime < now
          IN  /\ (strict /\ Fits(NewSize(last')) /\ last'.failed = {}) =>
                     /\ files'[new].exists
                     /\ load_from_cache(files', last'.key, now, {}).result
                            = last'.data
              /\ ~files'[new].exists =>
                     \/ ~Fits(NewSize(last'))
                     \/ ~strict
                     \/ last'.failed # {}]_vars

\* a pass that removed older entries, without a failure, and kept the entry
\* of its save, which was strictly the most recent one
C21_Witness ==
    /\ last.op = "save" /\ last.ok
    /\ last.removed # <<>>
    /\ last.failed = {}
    /\ files[KeyPath(last)].exists
    /\ \A i \in 1..Len(last.scanned) :
           last.scanned[i].path # KeyPath(last) => last.scanned[i].mtime < now


\* the entries an eviction pass removed, with the mtime they had
RemovedOf(x) ==
    {e \in Range(x.scanned) : e.path \in Range(x.removed)}

\* C22 as stated: an eviction pass deletes no entry that is within its
\* expiry window while an entry past its expiry window remains in the
\* directory.
C22_Original ==
    [][(last'.op = "save" /\ last'.pass = "done") =>
          \A e \in RemovedOf(last') :
              now < e.mtime + expiry_days =>
                  \A q \in PklFiles(files') :
                      now < files'[q].mtime + expiry_days]_vars

\* C22, amended: an eviction pass deletes no entry that is within its expiry
\* window while an entry past its expiry window remains, other than entries
\* whose removal failed in this pass.
C22_ExpiredFirst ==
    [][(last'.op = "save" /\ last'.pass = "done") =>
          \A e \in RemovedOf(last') :
              now < e.mtime + expiry_days =>
                  \A q \in PklFiles(files') \ last'.failed :
                      now < files'[q].mtime + expiry_days]_vars

\* a pass that removed an expired entry and then an entry within its window
C22_Witness ==
    /\ last.op = "save" /\ last.pass = "done"
    /\ last.failed = {}
    /\ \E e \in RemovedOf(last) : ~(now < e.mtime + expiry_days)
    /\ \E e \in RemovedOf(last) :
           now < e.mtime + expiry_days /\ e.path # KeyPath(last)


\* the bytes freed by removing the first n entries of sc, those of F left out
RECURSIVE Freed(_, _, _)
Freed(sc, n, F) ==
    IF n = 0 THEN 0
    ELSE Freed(sc, n - 1, F) + (IF sc[n].path \in F THEN 0 ELSE sc[n].size)

\* the aggregate size after the first n entries of sc, those of F left out,
\* are removed
Running(sc, n, F) == Freed(sc, Len(sc), {}) - Freed(sc, n, F)

\* the paths of the first n entries of sc, those of F left out
PrefixPaths(sc, n, F) ==
    SelectSeq([i \in 1..n |-> sc[i].path], LAMBDA p : p \notin F)

\* the aggregate size a save leaves before its eviction pass
WrittenSize(x) ==
    SumSizes(files, PklFiles(files) \ {KeyPath(x)}) + NewSize(x)

\* C23 as stated: a save that leaves the aggregate size at or below the
\* maximum, also exactly at it, deletes nothing; an eviction pass deletes the
\* shortest oldest-first prefix of the entries whose removal brings the
\* aggregate to at most 80% of the maximum.
C23_Original ==
    [][(last'.op = "save" /\ last'.ok) =>
          LET sc == last'.scanned
          IN  /\ WrittenSize(last') <= max_cache_size_mb * 1024 * 1024 =>
                     /\ last'.removed = <<>>
                     /\ \A p \in PklFiles(files) \ {KeyPath(last')} :
                            files'[p] = files[p]
                     /\ files'[KeyPath(last')].exists
              /\ last'.pass = "done" =>
                     \E n \in 0..Len(sc) :
                         /\ last'.removed = PrefixPaths(sc, n, {})
                         /\ n = Len(sc) \/ Fits(Running(sc, n, {}))
                         /\ \A m \in 0..(n - 1) : ~Fits(Running(sc, m, {}))
                         /\ \A j \in 1..Len(sc) :
                                j <= n <=> ~files'[sc[j].path].exists]_vars

\* C23, amended: the entries the pass handles are the shortest oldest-first
\* prefix after which the running aggregate, which an entry whose removal
\* fails does not lower, is at most 80% of the maximum; it deletes those of
\* them whose removal succeeds and nothing else.
C23_MinimalEviction ==
    [][(last'.op = "save" /\ last'.ok) =>
          LET sc == last'.scanned
              F  == last'.failed
          IN  /\ WrittenSize(last') <= max_cache_size_mb * 1024 * 1024 =>
                     /\ last'.removed = <<>>
                     /\ \A p \in PklFiles(files) \ {KeyPath(last')} :
                            files'[p] = files[p]
                     /\ files'[KeyPath(last')].exists
              /\ last'.pass = "done" =>
                     \E n \in 0..Len(sc) :
                         /\ last'.removed = PrefixPaths(sc, n, F)
                         /\ F \subseteq {sc[j].path : j \in 1..n}
                         /\ n = Len(sc) \/ Fits(Running(sc, n, F))
                         /\ \A m \in 0..(n - 1) : ~Fits(Running(sc, m, F))
                         /\ \A j \in 1..Len(sc) :
                                (j <= n /\ sc[j].path \notin F)
                                    <=> ~files'[sc[j].path].exists
                         /\ \A j \in 1..(Len(sc) - 1) :
                                sc[j].mtime <= sc[j + 1].mtime]_vars

\* a save that left the aggregate size exactly at the maximum and deleted
\* nothing
C23_Witness ==
    /\ last.op = "save" /\ last.ok
    /\ last.pass = "none"
    /\ Cardinality(PklFiles(files)) >= 2
    /\ SumSizes(files, PklFiles(files)) = max_cache_size_mb * 1024 * 1024


\* ------------------------------------------------- SpecFault, continued

\* the fault of a save lets it reach os.replace and os.replace succeeds
Renamed(f) ==
    /\ f.site \notin {"open", "write", "replace"}
    /\ ~(f.site \in {"mkdir_perm", "mkdir_other"} /\ f.handler)

\* C24: when save_to_cache returns False, every entry file, that of the key
\* included, is as it was, and a load of the key returns what it returned
\* before; save returns True exactly when the rename of the temporary file
\* onto the final location succeeded.
C24_FailedSaveInvisible ==
    [][last'.op = "save" =>
          /\ last'.ok <=> Renamed(last'.fault)
          /\ ~last'.ok =>
                 /\ \A p \in Paths : IsPkl(p) => files'[p] = files[p]
                 /\ load_from_cache(files', last'.key, now, {}).result
                        = load_from_cache(files, last'.key, now, {}).result]_vars

\* a save whose write failed, over an entry of the key that still loads
C24_Witness ==
    /\ last.op = "save"
    /\ ~last.ok
    /\ last.fault.site = "write"
    /\ load_from_cache(files, last.key, now, {}).result \in FPayloads


\* ------------------------------------------------------------- SpecLive

\* C25: every call of load_from_cache, save_to_cache, clear_cache and
\* cleanup_expired returns, also through its error handlers, and has left
\* the lock free when it has returned; a thread waiting for the lock
\* eventually holds it, and in the end all calls have returned and the lock
\* is free.
C25_NoDeadlock ==
    /\ [](\A t \in Threads : thr[t].pc = "done" => lock # t)
    /\ \A t \in Threads : (thr[t].pc \in {"start", "enter"}) ~> (lock = t)
    /\ \A t \in Threads : (lock = t) ~> (thr[t].pc = "done")
    /\ <>[](AllDone /\ lock = NoThread)

\* a save has returned False through its handler, another thread holds the
\* lock now and a third one is still waiting for it
C25_Witness ==
    \E t, u \in Threads :
        /\ thr[t].op = "save" /\ thr[t].pc = "done" /\ ~thr[t].ok
        /\ u # t
        /\ lock = u
        /\ \E v \in Threads : thr[v].pc \in {"start", "enter"}


\* ---------------------------------------------------------- SpecKeyPair

\* C26: two triples whose normalized fields differ in some position have
\* different delimiter-joined strings, so they get different keys, also when
\* a field contains the delimiter '|'.
C26_Original ==
    last.op = "key" =>
        ((\E i \in 1..3 : Normal(key_in[1][i]) # Normal(key_in[2][i])) =>
            /\ CacheString(key_in[1][1], key_in[1][2], key_in[1][3])
                   # CacheString(key_in[2][1], key_in[2][2], key_in[2][3])
            /\ key_out[1] # key_out[2])

====
